---- MODULE Spec2Model ----
(***************************************************************************)
(* Model of openscm_runner.run.run (src/src/openscm_runner/run.py): the    *)
(* validation of out_config, the per-model loop that resolves an adapter   *)
(* and invokes it, the metadata consistency check and the final merge.     *)
(*                                                                         *)
(* Strings that the code inspects character by character (the model        *)
(* identifiers, through str.upper) are sequences of one-character strings. *)
(***************************************************************************)
EXTENDS Naturals, Sequences, FiniteSets

VARIABLES
    climate_models_cfgs,  \* argument: sequence of [model, cfgs] (dict, insertion order)
    scenarios,            \* argument
    output_variables,     \* argument
    out_config,           \* argument: [given, items]; items a sequence of [model, value]
    pc,                   \* position in run
    res,                  \* the list res of line 68
    pos,                  \* position of the for loop of line 69 in climate_models_cfgs
    runner,               \* the adapter resolved at lines 70-77
    calls,                \* every adapter invocation made so far, in order
    chk,                  \* position of the for loop of line 87 in res
    key_meta,             \* key_meta of line 89
    appended,             \* number of calls of scmdata.run_append
    raised,               \* the exception that left run, if any
    scmdf                 \* the value returned by run, if any

vars == << climate_models_cfgs, scenarios, output_variables, out_config, pc, res,
           pos, runner, calls, chk, key_meta, appended, raised, scmdf >>

args == << climate_models_cfgs, scenarios, output_variables, out_config >>

----------------------------------------------------------------------------
(* Bounds *)

MaxModels == 3
MaxOutCfg == 2

----------------------------------------------------------------------------
(* Strings and str.upper *)

LowerLetters == << "a", "b", "c", "f", "g", "i", "m", "o", "r", "s", "u" >>
UpperLetters == << "A", "B", "C", "F", "G", "I", "M", "O", "R", "S", "U" >>

\* the uppercase form of each lowercase letter, and the reverse
UpperOf ==
    [c \in { LowerLetters[k] : k \in DOMAIN LowerLetters } |->
        UpperLetters[CHOOSE k \in DOMAIN LowerLetters : LowerLetters[k] = c]]

LowerOf ==
    [c \in { UpperLetters[k] : k \in DOMAIN UpperLetters } |->
        LowerLetters[CHOOSE k \in DOMAIN UpperLetters : UpperLetters[k] = c]]

UpperChar(c) == IF c \in DOMAIN UpperOf THEN UpperOf[c] ELSE c

LowerChar(c) == IF c \in DOMAIN LowerOf THEN LowerOf[c] ELSE c

\* str.upper(): every cased character replaced by its uppercase form
Upper(s) == [k \in DOMAIN s |-> UpperChar(s[k])]

StrMAGICC7 == << "M", "A", "G", "I", "C", "C", "7" >>
StrFAIR == << "F", "A", "I", "R" >>
StrBOGUS == << "B", "O", "G", "U", "S" >>

\* every string obtained from s by choosing a case for each of its characters
RECURSIVE Casings(_)
Casings(s) ==
    IF s = << >> THEN { << >> }
    ELSE { << c >> \o t : c \in { Head(s), LowerChar(Head(s)) }, t \in Casings(Tail(s)) }

Strfair == [k \in DOMAIN StrFAIR |-> LowerChar(StrFAIR[k])]

----------------------------------------------------------------------------
(* The values of a call *)

\* model identifiers used as dict keys
ModelIds == { StrMAGICC7, StrFAIR, Strfair, StrBOGUS }

\* the configs of one model: a list with one entry per run
CfgsValues == { << "c1" >>, << "c1", "c2" >> }

\* opaque to run: forwarded to every adapter
ScenarioValues == { "scenarios" }

\* the default of line 17
OutputVariablesValues == { << "Surface Temperature" >> }

\* values of out_config: a tuple or some other type (a list)
NoneCfg == [kind |-> "None", fields |-> << >>]
OutConfigValues ==
    { [kind |-> "tuple", fields |-> << "f1" >>],
      [kind |-> "tuple", fields |-> << "f2" >>],
      [kind |-> "list", fields |-> << "f1" >>] }

Keys(d) == { d[k].model : k \in DOMAIN d }

\* a dict: no key twice
IsDict(d) == \A j, k \in DOMAIN d : d[j].model = d[k].model => j = k

SeqsUpTo(S, n) == UNION { [1..m -> S] : m \in 0..n }

ClimateModelsCfgsValues ==
    { d \in SeqsUpTo([model : ModelIds, cfgs : CfgsValues], MaxModels) : IsDict(d) }

OutConfigDicts ==
    { d \in SeqsUpTo([model : ModelIds, value : OutConfigValues], MaxOutCfg) : IsDict(d) }

NoExc == [type |-> "None", models |-> {}, meta |-> {}, expected |-> {}]
NoResult == [obj |-> 0, meta_columns |-> {}, rows |-> << >>]

----------------------------------------------------------------------------
(* Collaborators: the adapters and scmdata *)

\* the climate_model metadata value an adapter writes on its rows
AdapterClimateModel(adapter) == IF adapter = "MAGICC7" THEN "MAGICC7" ELSE "FaIR"

BaseColumns == { "climate_model", "run_id", "scenario" }
ExtraColumns == { {}, { "extra" } }

\* adapter.run(scenarios, cfgs, output_variables=..., output_config=...): one row per config
AdapterRun(adapter, scen, cfgs, outvars, extra, obj) ==
    [ obj |-> obj,
      meta_columns |-> BaseColumns \cup extra,
      rows |-> [k \in DOMAIN cfgs |->
                  [climate_model |-> AdapterClimateModel(adapter), run_id |-> cfgs[k],
                   scenario |-> scen, variables |-> outvars]] ]

\* ScmDataFrame.get_unique_meta(col): the distinct values of a metadata column
GetUniqueMeta(r) == { r.rows[k].climate_model : k \in DOMAIN r.rows }

RECURSIVE ConcatRows(_)
ConcatRows(rs) == IF rs = << >> THEN << >> ELSE Head(rs).rows \o ConcatRows(Tail(rs))

\* scmdata.run_append(runs): a new object holding the rows of all runs, in order
RunAppend(rs, obj) ==
    [ obj |-> obj,
      meta_columns |-> UNION { rs[k].meta_columns : k \in DOMAIN rs },
      rows |-> ConcatRows(rs) ]

----------------------------------------------------------------------------
(* run *)

N == Len(climate_models_cfgs)

Raise(e) ==
    /\ raised' = e
    /\ pc' = "raised"

\* the difference taken the wrong way round
UnknownModelsFlipped == Keys(climate_models_cfgs) \ Keys(out_config.items)

\* line 54
UnknownModels == Keys(out_config.items) \ Keys(climate_models_cfgs)

\* lines 53-59
ValidateKeys ==
    /\ pc = "validate_keys"
    /\ IF ~out_config.given
       THEN /\ pc' = "loop"
            /\ raised' = raised
       ELSE IF UnknownModels # {}
       THEN Raise([NoExc EXCEPT !.type = "KeyError", !.models = UnknownModels])
       ELSE /\ pc' = "validate_values"
            /\ raised' = raised
    /\ UNCHANGED << args, res, pos, runner, calls, chk, key_meta, appended, scmdf >>

\* any sequence type accepted
IsTupleOrList(v) == v.kind \in { "tuple", "list" }

\* line 62
IsTuple(v) == v.kind = "tuple"

\* lines 61-66: the first value, in the dict's order, that is not a tuple
ValidateValues ==
    /\ pc = "validate_values"
    /\ LET bad == { k \in DOMAIN out_config.items : ~IsTuple(out_config.items[k].value) }
       IN IF bad # {}
          THEN LET first == CHOOSE k \in bad : \A j \in bad : k <= j
               IN Raise([NoExc EXCEPT !.type = "TypeError",
                                      !.models = { out_config.items[first].model }])
          ELSE /\ pc' = "loop"
               /\ raised' = raised
    /\ UNCHANGED << args, res, pos, runner, calls, chk, key_meta, appended, scmdf >>

\* both families matched in any letter-casing
ResolveAdapterAnyCase(climate_model) ==
    IF Upper(climate_model) = StrMAGICC7 THEN "MAGICC7"
    ELSE IF Upper(climate_model) = StrFAIR THEN "FAIR"
    ELSE "none"

\* lines 70-77: "MAGICC7", "FAIR" or "none"
ResolveAdapter(climate_model) ==
    IF climate_model = StrMAGICC7 THEN "MAGICC7"
    ELSE IF Upper(climate_model) = StrFAIR THEN "FAIR"
    ELSE "none"

\* an unsupported model skipped instead of aborting the run
ResolveSkipping ==
    /\ pc = "loop"
    /\ pos <= N
    /\ LET climate_model == climate_models_cfgs[pos].model
       IN IF ResolveAdapter(climate_model) = "none"
          THEN /\ pos' = pos + 1
               /\ pc' = pc
               /\ runner' = runner
          ELSE /\ runner' = ResolveAdapter(climate_model)
               /\ pc' = "invoke"
               /\ pos' = pos
    /\ UNCHANGED << args, res, calls, chk, key_meta, appended, raised, scmdf >>

\* lines 69-77: the next item of the loop, and its adapter
Resolve ==
    /\ pc = "loop"
    /\ pos <= N
    /\ LET climate_model == climate_models_cfgs[pos].model
       IN IF ResolveAdapter(climate_model) = "none"
          THEN /\ Raise([NoExc EXCEPT !.type = "NotImplementedError",
                                      !.models = { climate_model }])
               /\ runner' = runner
          ELSE /\ runner' = ResolveAdapter(climate_model)
               /\ pc' = "invoke"
               /\ raised' = raised
    /\ UNCHANGED << args, res, pos, calls, chk, key_meta, appended, scmdf >>

\* the slice of the first key, whatever the model
OutputConfigFirst(climate_model) ==
    IF out_config.given /\ out_config.items # << >>
    THEN out_config.items[1].value
    ELSE NoneCfg

\* lines 79-82
OutputConfigCm(climate_model) ==
    IF out_config.given /\ climate_model \in Keys(out_config.items)
    THEN out_config.items[CHOOSE k \in DOMAIN out_config.items :
                              out_config.items[k].model = climate_model].value
    ELSE NoneCfg

\* line 84: the arguments of runner.run
RunnerCall ==
    [ adapter |-> runner,
      scenarios |-> scenarios,
      cfgs |-> climate_models_cfgs[pos].cfgs,
      output_variables |-> output_variables,
      output_config |-> OutputConfigCm(climate_models_cfgs[pos].model) ]

\* the newest result put first
PrependRes(model_res) == << model_res >> \o res

\* line 85
AppendRes(model_res) == Append(res, model_res)

\* lines 79-85: the adapter returns a result, which is collected
InvokeReturns ==
    /\ pc = "invoke"
    /\ calls' = Append(calls, RunnerCall)
    /\ \E extra \in ExtraColumns :
          res' = AppendRes(AdapterRun(runner, scenarios, climate_models_cfgs[pos].cfgs,
                                      output_variables, extra, Len(calls) + 1))
    /\ pos' = pos + 1
    /\ pc' = "loop"
    /\ UNCHANGED << args, runner, chk, key_meta, appended, raised, scmdf >>

\* the adapter's error caught, the loop going on with the next model
InvokeRaisesCaught ==
    /\ pc = "invoke"
    /\ calls' = Append(calls, RunnerCall)
    /\ pos' = pos + 1
    /\ pc' = "loop"
    /\ UNCHANGED << args, res, runner, chk, key_meta, appended, raised, scmdf >>

\* line 84: the adapter raises; nothing catches it
InvokeRaises ==
    /\ pc = "invoke"
    /\ calls' = Append(calls, RunnerCall)
    /\ Raise([NoExc EXCEPT !.type = "AdapterError",
                           !.models = { climate_models_cfgs[pos].model }])
    /\ UNCHANGED << args, res, pos, runner, chk, key_meta, appended, scmdf >>

\* the consistency check entered as soon as two results are there
LoopDoneEarly ==
    /\ pc = "loop"
    /\ pos > N \/ Len(res) >= 2
    /\ pc' = "check"
    /\ UNCHANGED << args, res, pos, runner, calls, chk, key_meta, appended, raised, scmdf >>

\* line 69: the loop is exhausted
LoopDone ==
    /\ pc = "loop"
    /\ pos > N
    /\ pc' = "check"
    /\ UNCHANGED << args, res, pos, runner, calls, chk, key_meta, appended, raised, scmdf >>

\* key_meta taken anew from every result
KeyMetaEvery(i) == res[i].meta_columns

\* lines 88-89
KeyMetaAt(i) == IF i < 2 THEN res[i].meta_columns ELSE key_meta

\* lines 87-98: one iteration of the consistency loop
CheckMeta ==
    /\ pc = "check"
    /\ chk <= Len(res)
    /\ LET model_res == res[chk]
           model_meta == model_res.meta_columns
           climate_model == GetUniqueMeta(model_res)
       IN /\ key_meta' = KeyMetaAt(chk)
          /\ IF model_meta # key_meta'
             THEN /\ Raise([type |-> "AssertionError", models |-> climate_model,
                            meta |-> model_meta, expected |-> key_meta'])
                  /\ chk' = chk
             ELSE /\ chk' = chk + 1
                  /\ pc' = pc
                  /\ raised' = raised
    /\ UNCHANGED << args, res, pos, runner, calls, appended, scmdf >>

\* line 87: the loop is exhausted
CheckDone ==
    /\ pc = "check"
    /\ chk > Len(res)
    /\ pc' = "merge"
    /\ UNCHANGED << args, res, pos, runner, calls, chk, key_meta, appended, raised, scmdf >>

\* the length test off by one
OnlyOneOffByOne == Len(res) = 2

\* line 100
OnlyOne == Len(res) = 1

\* lines 100-102 and 107
ReturnOnly ==
    /\ pc = "merge"
    /\ OnlyOne
    /\ scmdf' = res[1]
    /\ pc' = "returned"
    /\ UNCHANGED << args, res, pos, runner, calls, chk, key_meta, appended, raised >>

\* lines 103-107, with results to append
ReturnAppended ==
    /\ pc = "merge"
    /\ ~OnlyOne
    /\ res # << >>
    /\ appended' = appended + 1
    /\ scmdf' = RunAppend(res, Len(calls) + 1)
    /\ pc' = "returned"
    /\ UNCHANGED << args, res, pos, runner, calls, chk, key_meta, raised >>

\* lines 103-107 with an empty list: scmdata either returns an empty object or raises
AppendNothing ==
    /\ pc = "merge"
    /\ ~OnlyOne
    /\ res = << >>
    /\ appended' = appended + 1
    /\ \/ /\ scmdf' = RunAppend(res, Len(calls) + 1)
          /\ pc' = "returned"
          /\ raised' = raised
       \/ /\ Raise([NoExc EXCEPT !.type = "ValueError"])
          /\ scmdf' = scmdf
    /\ UNCHANGED << args, res, pos, runner, calls, chk, key_meta >>

----------------------------------------------------------------------------
(* Specifications *)

Start ==
    /\ res = << >>
    /\ pos = 1
    /\ runner = "none"
    /\ calls = << >>
    /\ chk = 1
    /\ key_meta = {}
    /\ appended = 0
    /\ raised = NoExc
    /\ scmdf = NoResult

Init ==
    /\ climate_models_cfgs \in ClimateModelsCfgsValues
    /\ scenarios \in ScenarioValues
    /\ output_variables \in OutputVariablesValues
    /\ out_config \in { [given |-> FALSE, items |-> << >>] }
                       \cup { [given |-> TRUE, items |-> d] : d \in OutConfigDicts }
    /\ pc = "validate_keys"
    /\ Start

Next ==
    \/ ValidateKeys
    \/ ValidateValues
    \/ Resolve
    \/ InvokeReturns
    \/ InvokeRaises
    \/ LoopDone
    \/ CheckMeta
    \/ CheckDone
    \/ ReturnOnly
    \/ ReturnAppended
    \/ AppendNothing

Spec == Init /\ [][Next]_vars

\* one call with a single model and no out_config, about to resolve its adapter
ResolveIds ==
    Casings(StrFAIR) \cup Casings(StrMAGICC7) \cup Casings(StrBOGUS)
        \cup { StrFAIR \o << "7" >>, SubSeq(StrFAIR, 1, 3), << >>, StrMAGICC7 \o StrFAIR }

InitResolve ==
    /\ climate_models_cfgs \in { << [model |-> id, cfgs |-> c] >> : id \in ResolveIds, c \in CfgsValues }
    /\ scenarios \in ScenarioValues
    /\ output_variables \in OutputVariablesValues
    /\ out_config = [given |-> FALSE, items |-> << >>]
    /\ pc = "loop"
    /\ Start

NextResolve == Resolve

SpecResolve == InitResolve /\ [][NextResolve]_vars

----------------------------------------------------------------------------
(* Properties *)

Terminal == pc \in { "raised", "returned" }

\* the adapter the model at position i is run with
AdapterAt(i) == ResolveAdapter(climate_models_cfgs[i].model)

HasKey(d, m) == \E k \in DOMAIN d : d[k].model = m

\* keys of out_config that are no keys of climate_models_cfgs
MissingKeys ==
    { m \in ModelIds : HasKey(out_config.items, m) /\ ~HasKey(climate_models_cfgs, m) }

\* models of out_config whose value is not a tuple
Malformed ==
    { out_config.items[k].model :
        k \in { j \in DOMAIN out_config.items : out_config.items[j].value.kind # "tuple" } }

\* C1: a call whose out_config has a key missing from climate_models_cfgs fails
\* with a KeyError naming exactly the missing keys, and no adapter was invoked.
C1_UnknownKeys ==
    (out_config.given /\ MissingKeys # {} /\ pc # "validate_keys")
        => /\ pc = "raised"
           /\ raised.type = "KeyError"
           /\ raised.models = MissingKeys
           /\ calls = << >>
           /\ res = << >>

C1_Witness ==
    /\ pc = "raised"
    /\ raised.type = "KeyError"
    /\ Cardinality(Keys(out_config.items)) = 2
    /\ Cardinality(MissingKeys) = 1

\* C2 as stated: whenever some value of out_config is not a tuple, the call fails
\* with a configuration error naming a model whose value is malformed, and no
\* adapter was invoked.
C2_AsStated ==
    (out_config.given /\ Malformed # {} /\ pc \notin { "validate_keys", "validate_values" })
        => /\ pc = "raised"
           /\ raised.type \in { "KeyError", "TypeError" }
           /\ raised.models \cap Malformed # {}
           /\ calls = << >>

\* the first position of out_config whose value is not a tuple
FirstMalformed ==
    CHOOSE k \in DOMAIN out_config.items :
        /\ out_config.items[k].value.kind # "tuple"
        /\ \A j \in 1..(k - 1) : out_config.items[j].value.kind = "tuple"

\* C2 (amended): whenever some value of out_config is not a tuple, the call fails
\* with a configuration error and no adapter was invoked: the KeyError naming the
\* missing keys when out_config has a key missing from climate_models_cfgs,
\* otherwise a TypeError naming the first model, in out_config's order, whose value
\* is not a tuple.
C2_Malformed ==
    (out_config.given /\ Malformed # {} /\ pc \notin { "validate_keys", "validate_values" })
        => /\ pc = "raised"
           /\ calls = << >>
           /\ res = << >>
           /\ IF MissingKeys # {}
              THEN raised.type = "KeyError" /\ raised.models = MissingKeys
              ELSE /\ raised.type = "TypeError"
                   /\ raised.models = { out_config.items[FirstMalformed].model }

C2_Witness ==
    /\ pc = "raised"
    /\ raised.type = "TypeError"
    /\ Len(out_config.items) = 2
    /\ raised.models = { out_config.items[2].model }

\* the results whose column set differs from the first result's
Offending == { i \in DOMAIN res : res[i].meta_columns # res[1].meta_columns }

FirstOffending == CHOOSE i \in Offending : \A j \in Offending : i <= j

\* all models ran: every model has produced its result
AllRan == Len(res) = N /\ pc \notin { "loop", "invoke" }

\* C3: when two or more models ran and some result's column set differs from the
\* first result's, the call fails with an AssertionError naming the offending
\* model's climate_model value, its column set and the first result's column set,
\* and nothing is merged or returned; when all column sets are equal no
\* AssertionError is raised.
C3_SchemaMismatch ==
    LET O == Offending
        f == CHOOSE i \in O : \A j \in O : i <= j
    IN /\ (AllRan /\ N >= 2 /\ O # {} /\ pc # "check")
             => /\ pc = "raised"
                /\ raised.type = "AssertionError"
                /\ raised.models = { res[f].rows[k].climate_model : k \in DOMAIN res[f].rows }
                /\ raised.models = { AdapterClimateModel(AdapterAt(f)) }
                /\ raised.meta = res[f].meta_columns
                /\ raised.expected = res[1].meta_columns
                /\ scmdf = NoResult
                /\ appended = 0
       /\ (AllRan /\ N >= 2 /\ O # {} /\ pc = "check") => chk <= f
       /\ (O = {}) => raised.type # "AssertionError"

C3_Witness ==
    /\ pc = "raised"
    /\ raised.type = "AssertionError"
    /\ N = 3
    /\ FirstOffending = 3
    /\ raised.meta # raised.expected

\* the number of rows the results before position i hold
RECURSIVE RowsBefore(_)
RowsBefore(i) == IF i <= 1 THEN 0 ELSE RowsBefore(i - 1) + Len(res[i - 1].rows)

\* how often row r occurs in the sequence of rows rs
Count(r, rs) == Cardinality({ k \in DOMAIN rs : rs[k] = r })

RECURSIVE CountInResults(_, _)
CountInResults(r, i) ==
    IF i = 0 THEN 0 ELSE CountInResults(r, i - 1) + Count(r, res[i].rows)

\* C4: when more than one model ran and all results share one schema, the value
\* returned holds the rows of all results in the order of climate_models_cfgs:
\* every row as often as in the results, none added, each with the climate_model
\* value of the adapter that produced it.
C4_Concatenation ==
    (pc = "returned" /\ N >= 2)
        => /\ Offending = {}
           /\ Len(res) = N
           /\ Len(scmdf.rows) = RowsBefore(N + 1)
           /\ \A i \in 1..N : Len(res[i].rows) = Len(climate_models_cfgs[i].cfgs)
           /\ \A i \in 1..N : \A k \in DOMAIN res[i].rows :
                 /\ scmdf.rows[RowsBefore(i) + k] = res[i].rows[k]
                 /\ scmdf.rows[RowsBefore(i) + k].climate_model
                        = AdapterClimateModel(AdapterAt(i))
                 /\ scmdf.rows[RowsBefore(i) + k].run_id = climate_models_cfgs[i].cfgs[k]
           /\ \A k \in DOMAIN scmdf.rows :
                 Count(scmdf.rows[k], scmdf.rows) = CountInResults(scmdf.rows[k], N)
           /\ scmdf.meta_columns = res[1].meta_columns

\* two models run by the same adapter with equal configs: their rows are equal
C4_Witness ==
    /\ pc = "returned"
    /\ N = 3
    /\ AdapterAt(1) = "MAGICC7"
    /\ res[2].rows = res[3].rows
    /\ Len(res[1].rows) = 2
    /\ Len(scmdf.rows) = 4
    /\ Count(scmdf.rows[4], scmdf.rows) = 2

\* C5: with exactly one model, run returns the very object its adapter returned,
\* and scmdata.run_append is never called.
C5_SingleResult ==
    (N = 1)
        => /\ appended = 0
           /\ (pc = "returned")
                 => /\ Len(calls) = 1
                    /\ scmdf = res[1]
                    /\ scmdf.obj = 1
                    /\ scmdf = AdapterRun(AdapterAt(1), scenarios, climate_models_cfgs[1].cfgs,
                                          output_variables, scmdf.meta_columns \ BaseColumns, 1)

C5_Witness ==
    /\ N = 1
    /\ pc = "returned"
    /\ climate_models_cfgs[1].model = StrFAIR
    /\ scmdf.obj = 1

\* s is t in some letter-casing
IsCasingOf(s, t) ==
    /\ Len(s) = Len(t)
    /\ \A k \in 1..Len(t) : s[k] = t[k] \/ (s[k] # t[k] /\ UpperChar(s[k]) = t[k] /\ LowerChar(t[k]) = s[k])

\* C6: every letter-casing of "FAIR" resolves to the FAIR adapter, only the exact
\* string "MAGICC7" resolves to the MAGICC7 adapter, and every other identifier
\* fails with a NotImplementedError naming it.
C6_Resolution ==
    (pc # "loop") =>
        LET id == climate_models_cfgs[1].model
        IN IF id = StrMAGICC7
           THEN pc = "invoke" /\ runner = "MAGICC7" /\ raised = NoExc
           ELSE IF IsCasingOf(id, StrFAIR)
           THEN pc = "invoke" /\ runner = "FAIR" /\ raised = NoExc
           ELSE /\ pc = "raised"
                /\ raised.type = "NotImplementedError"
                /\ raised.models = { id }
                /\ runner = "none"
                /\ calls = << >>

\* a casing of "MAGICC7" other than the exact string is refused
C6_Witness ==
    /\ pc = "raised"
    /\ raised.type = "NotImplementedError"
    /\ climate_models_cfgs[1].model # StrMAGICC7
    /\ IsCasingOf(climate_models_cfgs[1].model, StrMAGICC7)

\* out_config[m] when out_config is given and has the key m, otherwise none
SliceOf(m) ==
    IF out_config.given /\ HasKey(out_config.items, m)
    THEN LET k == CHOOSE j \in DOMAIN out_config.items : out_config.items[j].model = m
         IN out_config.items[k].value
    ELSE NoneCfg

\* C7: the adapters are invoked one at a time in the order of
\* climate_models_cfgs, once per model; the k-th invocation is made on the adapter
\* of the k-th model with the caller's scenarios and output_variables, that
\* model's cfgs and its slice of out_config (none when out_config is absent or
\* lacks the key); the results are collected in the order of the invocations; a
\* call that gets past the loop has invoked every model exactly once.
C7_SequentialInvocation ==
    /\ Len(calls) <= N
    /\ \A k \in DOMAIN calls :
          /\ calls[k].adapter = AdapterAt(k)
          /\ calls[k].adapter # "none"
          /\ calls[k].scenarios = scenarios
          /\ calls[k].output_variables = output_variables
          /\ calls[k].cfgs = climate_models_cfgs[k].cfgs
          /\ calls[k].output_config = SliceOf(climate_models_cfgs[k].model)
    /\ Len(res) <= Len(calls)
    /\ Len(calls) <= Len(res) + 1
    /\ \A k \in DOMAIN res :
          /\ res[k].obj = k
          /\ \A j \in DOMAIN res[k].rows :
                res[k].rows[j].climate_model = AdapterClimateModel(calls[k].adapter)
    /\ pc \in { "check", "merge", "returned" } => Len(calls) = N /\ Len(res) = N

\* three models ran; the first has a slice of out_config, the second has none
C7_Witness ==
    /\ pc = "returned"
    /\ N = 3
    /\ Len(calls) = 3
    /\ out_config.given
    /\ calls[1].output_config.kind = "tuple"
    /\ calls[2].output_config = NoneCfg
    /\ calls[3].output_config.kind = "tuple"
    /\ calls[3].output_config # calls[1].output_config
    /\ calls[1].cfgs # calls[2].cfgs

\* the positions of climate_models_cfgs whose identifier no adapter supports
Unsupported == { i \in 1..N : ResolveAdapter(climate_models_cfgs[i].model) = "none" }

FirstUnsupported == CHOOSE i \in Unsupported : \A j \in Unsupported : i <= j

\* C8 as stated: a call with an unsupported identifier, first at position p, ends
\* with the resolution error for it, models 1..p-1 invoked once each.
C8_AsStated ==
    LET U == Unsupported
        p == CHOOSE i \in U : \A j \in U : i <= j
    IN (U # {} /\ Terminal)
          => /\ raised.type = "NotImplementedError"
             /\ raised.models = { climate_models_cfgs[p].model }
             /\ Len(calls) = p - 1

\* out_config passes the validation of lines 53-66
ValidOutConfig == ~out_config.given \/ (MissingKeys = {} /\ Malformed = {})

\* C8 (amended): in a call whose out_config passes validation and in which no
\* adapter of an earlier model fails, an unsupported identifier, first at position p,
\* ends the call with a NotImplementedError naming it; the adapters of models
\* 1..p-1 have been invoked once each and their results are kept in res, and
\* nothing is returned. In every call, no adapter of position p or later is ever
\* invoked.
C8_UnsupportedAborts ==
    LET U == Unsupported
        p == CHOOSE i \in U : \A j \in U : i <= j
    IN (U # {})
          => /\ Len(calls) < p
             /\ pc \notin { "check", "merge", "returned" }
             /\ scmdf = NoResult
             /\ appended = 0
             /\ (Terminal /\ ValidOutConfig /\ raised.type # "AdapterError")
                   => /\ pc = "raised"
                      /\ raised.type = "NotImplementedError"
                      /\ raised.models = { climate_models_cfgs[p].model }
                      /\ Len(calls) = p - 1
                      /\ Len(res) = p - 1
                      /\ \A k \in DOMAIN calls : calls[k].cfgs = climate_models_cfgs[k].cfgs

C8_Witness ==
    /\ pc = "raised"
    /\ raised.type = "NotImplementedError"
    /\ N = 3
    /\ FirstUnsupported = 3
    /\ Len(calls) = 2

\* an adapter invocation failed: it was logged and produced no result
AdapterFailed == Len(calls) = Len(res) + 1

\* C9: when an adapter invocation fails, run ends with that error; the adapter
\* was invoked once, no later adapter is invoked, the consistency check and the
\* merge never run, and nothing is returned.
C9_AdapterErrorPropagates ==
    /\ AdapterFailed
          => /\ pc = "raised"
             /\ raised.type = "AdapterError"
             /\ raised.models = { climate_models_cfgs[Len(calls)].model }
             /\ pos = Len(calls)
             /\ chk = 1
             /\ key_meta = {}
             /\ appended = 0
             /\ scmdf = NoResult
    /\ raised.type = "AdapterError" => AdapterFailed
    /\ Len(calls) \in { Len(res), Len(res) + 1 }

\* the second of three models fails
C9_Witness ==
    /\ pc = "raised"
    /\ raised.type = "AdapterError"
    /\ N = 3
    /\ Len(calls) = 2
    /\ Len(res) = 1

\* the consistency check has started
CheckStarted ==
    \/ pc \in { "check", "merge", "returned" }
    \/ chk > 1
    \/ key_meta # {}
    \/ raised.type = "AssertionError"

\* C10: the consistency check and the merge start only after every model has
\* produced its result; an AssertionError is never raised while a model is still
\* to be invoked.
C10_CheckAfterAllRan ==
    /\ CheckStarted => Len(res) = N /\ Len(calls) = N /\ pos = N + 1
    /\ appended > 0 => Len(res) = N /\ chk = N + 1

\* three results, the mismatch already between the first two
C10_Witness ==
    /\ pc = "raised"
    /\ raised.type = "AssertionError"
    /\ N = 3
    /\ Len(res) = 3
    /\ Len(calls) = 3
    /\ res[1].meta_columns # res[2].meta_columns

====
